---- MODULE Spec2Model ----
(***************************************************************************)
(* Model of the certificate-store operations of the Keyfactor Go client    *)
(* (api/store.go): argument validation, the property codec                 *)
(* (buildPropertiesInterface + json.Marshal, unmarshalPropertiesString),   *)
(* the delete status check and the inventory decoder of                    *)
(* GetCertStoreInventory.                                                  *)
(*                                                                         *)
(* Go strings and JSON texts are sequences of one-character strings, so    *)
(* that encoding and decoding are computed character by character.         *)
(***************************************************************************)
EXTENDS Integers, Sequences, FiniteSets, TLC

VARIABLES args, requests, call, input

vars == <<args, requests, call, input>>

(***************************************************************************)
(* Bounds of the model.                                                    *)
(***************************************************************************)
MaxCalls == 2
MaxTokens == 3
MaxMembers == 2
MaxSlots == 2
MaxCerts == 2

(***************************************************************************)
(* Characters.  AsciiOrder lists the modelled characters in byte order;    *)
(* json.Marshal sorts map keys by that order.                              *)
(***************************************************************************)
QUOTE == "\""
BSLASH == "\\"
LF == "\n"
TAB == "\t"
CR == "\r"

AsciiOrder ==
  << TAB, LF, CR, " ", QUOTE, ",", "-", "/", "0", "1", "2", "3", "4", "5", "6",
     "7", "8", "9", ":", "[", BSLASH, "]", "a", "b", "e", "f", "l", "n", "r",
     "s", "t", "u", "v", "x", "y", "{", "}" >>

CharCode(c) == CHOOSE i \in 1..Len(AsciiOrder) : AsciiOrder[i] = c

Digits == {"0", "1", "2", "3", "4", "5", "6", "7", "8", "9"}

\* encoding/json scanner: isSpace
IsSpace(c) == c \in {" ", TAB, CR, LF}

RECURSIVE LessStr(_, _)
\* Go string comparison a < b (bytewise lexicographic).
LessStr(a, b) ==
  IF b = <<>> THEN FALSE
  ELSE IF a = <<>> THEN TRUE
  ELSE IF a[1] # b[1] THEN CharCode(a[1]) < CharCode(b[1])
  ELSE LessStr(Tail(a), Tail(b))

MinStr(S) == CHOOSE a \in S : \A b \in S \ {a} : LessStr(a, b)

RECURSIVE SortedKeys(_)
\* The keys of a map in the order json.Marshal writes them.
SortedKeys(S) ==
  IF S = {} THEN <<>>
  ELSE LET a == MinStr(S) IN <<a>> \o SortedKeys(S \ {a})

RECURSIVE Concat(_)
Last(s) == s[Len(s)]

Concat(ss) == IF ss = <<>> THEN <<>> ELSE Head(ss) \o Concat(Tail(ss))

EmptyMap == [k \in {} |-> <<>>]

(***************************************************************************)
(* json.Marshal, for the value shapes the client serializes.               *)
(***************************************************************************)
\* encoding/json encodeState.string: one character of a string literal.
EscapeChar(c) ==
  CASE c = QUOTE  -> <<BSLASH, QUOTE>>
    [] c = BSLASH -> <<BSLASH, BSLASH>>
    [] c = LF     -> <<BSLASH, "n">>
    [] c = CR     -> <<BSLASH, "r">>
    [] c = TAB    -> <<BSLASH, "t">>
    [] OTHER      -> <<c>>

RECURSIVE EscapeString(_)
EscapeString(s) ==
  IF s = <<>> THEN <<>> ELSE EscapeChar(Head(s)) \o EscapeString(Tail(s))

MarshalString(s) == <<QUOTE>> \o EscapeString(s) \o <<QUOTE>>

RECURSIVE MarshalMembers(_, _)
\* members: sequence of [k |-> key, text |-> serialized value]
MarshalMembers(members, first) ==
  IF members = <<>> THEN <<>>
  ELSE (IF first THEN <<>> ELSE <<",">>)
       \o MarshalString(Head(members).k) \o <<":">> \o Head(members).text
       \o MarshalMembers(Tail(members), FALSE)

\* json.Marshal of a map[string]string: keys sorted, values as string literals.
MarshalStringMap(m) ==
  LET keys == SortedKeys(DOMAIN m)
  IN <<"{">>
     \o MarshalMembers([i \in 1..Len(keys) |->
                          [k |-> keys[i], text |-> MarshalString(m[keys[i]])]], TRUE)
     \o <<"}">>

\* json.Marshal of a map[string]interface{} whose values are string maps.
MarshalNestedMap(m) ==
  LET keys == SortedKeys(DOMAIN m)
  IN <<"{">>
     \o MarshalMembers([i \in 1..Len(keys) |->
                          [k |-> keys[i], text |-> MarshalStringMap(m[keys[i]])]], TRUE)
     \o <<"}">>

ValueKey == <<"v", "a", "l", "u", "e">>

\* buildPropertiesInterface storing the key where the value belongs.
buildPropertiesInterfaceKeyAsValue(properties) ==
  [key \in DOMAIN properties |-> [f \in {ValueKey} |-> key]]

\* store.go buildPropertiesInterface: {"<key>": {"value": "<key-value>"}}
buildPropertiesInterface(properties) ==
  [key \in DOMAIN properties |-> [f \in {ValueKey} |-> properties[key]]]

\* store.go lines 31-36: the properties string CreateStore/UpdateStore compute.
EncodeProperties(properties) ==
  MarshalNestedMap(buildPropertiesInterface(properties))

(***************************************************************************)
(* json.Unmarshal into interface{}.  A decoded value is a record           *)
(*   [kind, str, members]                                                  *)
(* kind: "string" | "number" | "bool" | "null" | "object" | "array";       *)
(* str: the string's characters (the literal text of a number or bool);    *)
(* members: the members [k, v] of an object in input order, or the         *)
(* elements of an array (k empty).                                         *)
(* The modelled alphabet has no \uXXXX escape, no raw control character    *)
(* other than white space and no invalid UTF-8.                            *)
(***************************************************************************)
BS == "<BS>"
FF == "\f"

MkVal(kind, str, members) == [kind |-> kind, str |-> str, members |-> members]

NullVal == MkVal("null", <<>>, <<>>)

ParseFail == [ok |-> FALSE, pos |-> 0, val |-> NullVal]

ParseOk(pos, val) == [ok |-> TRUE, pos |-> pos, val |-> val]

\* encoding/json decode.go unquote: the character an escape \c stands for.
EscapeChars == {QUOTE, BSLASH, "/", "b", "f", "n", "r", "t"}

Unescape(c) ==
  CASE c = "b" -> BS
    [] c = "f" -> FF
    [] c = "n" -> LF
    [] c = "r" -> CR
    [] c = "t" -> TAB
    [] OTHER   -> c

RECURSIVE SkipSpace(_, _)
SkipSpace(s, i) ==
  IF i <= Len(s) /\ IsSpace(s[i]) THEN SkipSpace(s, i + 1) ELSE i

RECURSIVE SkipDigits(_, _)
SkipDigits(s, i) ==
  IF i <= Len(s) /\ s[i] \in Digits THEN SkipDigits(s, i + 1) ELSE i

IsDigitAt(s, i) == i <= Len(s) /\ s[i] \in Digits

RECURSIVE ScanString(_, _, _)
\* scanner stateInString / stateInStringEsc: i is the position after the
\* opening quote, acc the characters decoded so far.
ScanString(s, i, acc) ==
  IF i > Len(s) THEN ParseFail
  ELSE IF s[i] = QUOTE THEN ParseOk(i + 1, MkVal("string", acc, <<>>))
  ELSE IF s[i] = BSLASH
    THEN IF i + 1 <= Len(s) /\ s[i + 1] \in EscapeChars
           THEN ScanString(s, i + 2, Append(acc, Unescape(s[i + 1])))
           ELSE ParseFail
  ELSE IF s[i] \in {LF, CR, TAB, BS, FF} THEN ParseFail
  ELSE ScanString(s, i + 1, Append(acc, s[i]))

\* scanner stateNeg .. stateE0: -? (0 | [1-9][0-9]*) (\.[0-9]+)? ([eE][+-]?[0-9]+)?
ScanNumber(s, i) ==
  LET j0 == IF s[i] = "-" THEN i + 1 ELSE i
      j1 == IF s[j0] = "0" THEN j0 + 1 ELSE SkipDigits(s, j0 + 1)
      hasFrac == j1 <= Len(s) /\ s[j1] = "."
      j2 == IF hasFrac THEN SkipDigits(s, j1 + 2) ELSE j1
      hasExp == j2 <= Len(s) /\ s[j2] \in {"e", "E"}
      j3 == IF j2 + 1 <= Len(s) /\ s[j2 + 1] \in {"+", "-"} THEN j2 + 2 ELSE j2 + 1
      j4 == IF hasExp THEN SkipDigits(s, j3 + 1) ELSE j2
  IN IF ~IsDigitAt(s, j0) THEN ParseFail
     ELSE IF hasFrac /\ ~IsDigitAt(s, j1 + 1) THEN ParseFail
     ELSE IF hasExp /\ ~IsDigitAt(s, j3) THEN ParseFail
     ELSE ParseOk(j4, MkVal("number", SubSeq(s, i, j4 - 1), <<>>))

\* scanner stateT.., stateF.., stateN..: the literals true, false, null.
ScanLiteral(s, i, word, val) ==
  IF i + Len(word) - 1 <= Len(s) /\ SubSeq(s, i, i + Len(word) - 1) = word
    THEN ParseOk(i + Len(word), val)
    ELSE ParseFail

RECURSIVE ParseValue(_, _)
RECURSIVE ParseMembers(_, _, _)
RECURSIVE ParseElements(_, _, _)

\* scanner stateBeginValue. i may point at white space before the value.
ParseValue(s, i) ==
  LET b == SkipSpace(s, i)
  IN IF b > Len(s) THEN ParseFail
     ELSE CASE s[b] = "{" ->
                 LET j == SkipSpace(s, b + 1)
                 IN IF j <= Len(s) /\ s[j] = "}"
                      THEN ParseOk(j + 1, MkVal("object", <<>>, <<>>))
                      ELSE ParseMembers(s, j, <<>>)
            [] s[b] = "[" ->
                 LET j == SkipSpace(s, b + 1)
                 IN IF j <= Len(s) /\ s[j] = "]"
                      THEN ParseOk(j + 1, MkVal("array", <<>>, <<>>))
                      ELSE ParseElements(s, j, <<>>)
            [] s[b] = QUOTE -> ScanString(s, b + 1, <<>>)
            [] s[b] = "-" \/ s[b] \in Digits -> ScanNumber(s, b)
            [] s[b] = "t" ->
                 ScanLiteral(s, b, <<"t", "r", "u", "e">>,
                             MkVal("bool", <<"t", "r", "u", "e">>, <<>>))
            [] s[b] = "f" ->
                 ScanLiteral(s, b, <<"f", "a", "l", "s", "e">>,
                             MkVal("bool", <<"f", "a", "l", "s", "e">>, <<>>))
            [] s[b] = "n" -> ScanLiteral(s, b, <<"n", "u", "l", "l">>, NullVal)
            [] OTHER -> ParseFail

\* scanner stateBeginString .. stateEndValue inside an object: j points at
\* the first character of a key.
ParseMembers(s, j, acc) ==
  IF j > Len(s) \/ s[j] # QUOTE THEN ParseFail
  ELSE LET key == ScanString(s, j + 1, <<>>)
           c == SkipSpace(s, key.pos)
           v == ParseValue(s, c + 1)
           e == SkipSpace(s, v.pos)
           acc2 == Append(acc, [k |-> key.val.str, v |-> v.val])
       IN IF ~key.ok THEN ParseFail
          ELSE IF c > Len(s) \/ s[c] # ":" THEN ParseFail
          ELSE IF ~v.ok THEN ParseFail
          ELSE IF e > Len(s) THEN ParseFail
          ELSE IF s[e] = "," THEN ParseMembers(s, SkipSpace(s, e + 1), acc2)
          ELSE IF s[e] = "}" THEN ParseOk(e + 1, MkVal("object", <<>>, acc2))
          ELSE ParseFail

\* scanner stateBeginValue .. stateEndValue inside an array.
ParseElements(s, j, acc) ==
  LET v == ParseValue(s, j)
      e == SkipSpace(s, v.pos)
      acc2 == Append(acc, [k |-> <<>>, v |-> v.val])
  IN IF ~v.ok THEN ParseFail
     ELSE IF e > Len(s) THEN ParseFail
     ELSE IF s[e] = "," THEN ParseElements(s, e + 1, acc2)
     ELSE IF s[e] = "]" THEN ParseOk(e + 1, MkVal("array", <<>>, acc2))
     ELSE ParseFail

\* json.Unmarshal(data, &tempInterface): checkValid accepts exactly one value
\* between optional white space; ok = (err == nil).
Unmarshal(data) ==
  LET r == ParseValue(data, 1)
  IN IF r.ok /\ SkipSpace(data, r.pos) = Len(data) + 1 THEN r ELSE ParseFail

RECURSIVE ObjectMap(_)
\* decode.go objectInterface: m[key] = value per member, a later duplicate
\* key overwrites an earlier one.
ObjectMap(members) ==
  IF members = <<>> THEN EmptyMap
  ELSE LET n == Len(members)
           m == ObjectMap(SubSeq(members, 1, n - 1))
       IN [k \in DOMAIN m \cup {members[n].k} |->
             IF k = members[n].k THEN members[n].v ELSE m[k]]

(***************************************************************************)
(* store.go unmarshalPropertiesString.  The result is                      *)
(*   [outcome |-> "ok", value |-> the returned map]   or                   *)
(*   [outcome |-> "panic", value |-> EmptyMap]                             *)
(* the latter for a failed type assertion (a run-time panic that the       *)
(* function does not recover: nothing is returned).                        *)
(***************************************************************************)
Returned(m) == [outcome |-> "ok", value |-> m]

Panic == [outcome |-> "panic", value |-> EmptyMap]

\* unmarshalPropertiesString with the json.Unmarshal error not checked: the
\* assertion then meets a nil interface.
unmarshalPropertiesStringErrIgnored(properties) ==
  IF properties # <<>>
    THEN LET r == Unmarshal(properties)
             m == ObjectMap(r.val.members)
         IN IF ~r.ok \/ r.val.kind # "object" THEN Panic
            ELSE IF \E k \in DOMAIN m : m[k].kind # "string" THEN Panic
            ELSE Returned([k \in DOMAIN m |-> m[k].str])
    ELSE Returned(EmptyMap)

\* unmarshalPropertiesString with value.(string) in its comma-ok form,
\* skipping the entries that are not strings.
unmarshalPropertiesStringSkipping(properties) ==
  IF properties # <<>>
    THEN LET r == Unmarshal(properties)
             m == ObjectMap(r.val.members)
         IN IF ~r.ok THEN Returned(EmptyMap)
            ELSE IF r.val.kind # "object" THEN Panic
            ELSE Returned([k \in {x \in DOMAIN m : m[x].kind = "string"} |-> m[k].str])
    ELSE Returned(EmptyMap)

\* unmarshalPropertiesString returning newMap without filling it.
unmarshalPropertiesStringUnfilled(properties) ==
  IF properties # <<>>
    THEN LET r == Unmarshal(properties)
             m == ObjectMap(r.val.members)
         IN IF ~r.ok THEN Returned(EmptyMap)
            ELSE IF r.val.kind # "object" THEN Panic
            ELSE IF \E k \in DOMAIN m : m[k].kind # "string" THEN Panic
            ELSE Returned(EmptyMap)
    ELSE Returned(EmptyMap)

unmarshalPropertiesString(properties) ==
  IF properties # <<>>
    THEN LET r == Unmarshal(properties)
             m == ObjectMap(r.val.members)
         IN IF ~r.ok THEN Returned(EmptyMap)
            \* tempInterface.(map[string]interface{})
            ELSE IF r.val.kind # "object" THEN Panic
            \* value.(string), whichever order the map is ranged over
            ELSE IF \E k \in DOMAIN m : m[k].kind # "string" THEN Panic
            ELSE Returned([k \in DOMAIN m |-> m[k].str])
    ELSE Returned(EmptyMap)

(***************************************************************************)
(* Text outside the property codec (methods, endpoints, messages) keeps    *)
(* each literal of the source as one element of the sequence; fmt's %s and *)
(* %d verbs and the + operator concatenate.                                *)
(***************************************************************************)
RECURSIVE Itoa(_)
\* fmt %d of a non-negative int: its decimal digits.
Itoa(n) ==
  LET d == <<"0", "1", "2", "3", "4", "5", "6", "7", "8", "9">>[(n % 10) + 1]
  IN IF n < 10 THEN <<d>> ELSE Append(Itoa(n \div 10), d)

Contains(s, sub) ==
  \E i \in 1..(Len(s) - Len(sub) + 1) : SubSeq(s, i, i + Len(sub) - 1) = sub

\* A Go error value: nil, or an error with a message.
NoError == [nil |-> TRUE, msg |-> <<>>]

NewError(msg) == [nil |-> FALSE, msg |-> msg]

StatusNoContent == 204
StatusOK == 200

(***************************************************************************)
(* Inputs of the store operations.                                         *)
(***************************************************************************)
StoreIds == {<<>>, <<"7">>}

ArgProperties ==
  {EmptyMap, [k \in {<<"a">>} |-> <<"x">>], [k \in {<<"a">>} |-> <<"y">>]}

ArgsSet ==
  [type : {"create", "update"},
   ClientMachine : {<<>>, <<"m">>},
   StorePath : {<<>>, <<"/p">>},
   AgentId : {<<>>, <<"g">>},
   Properties : ArgProperties,
   PropertiesString : {<<>>, <<"{", "}">>}]

\* What the transport collaborator hands back: an error, or a response with
\* a status code and a body.  decodes: the body is JSON of the shape the
\* operation's response type takes; PropertiesString: that field of a
\* get-by-id body; doc: the body as json decodes it into interface{}.
Response(err, status, decodes, ps, doc) ==
  [err |-> err, StatusCode |-> status, decodes |-> decodes,
   PropertiesString |-> ps, doc |-> doc]

TransportFailure == Response(NewError(<<"connection refused">>), 0, FALSE, <<>>, ParseFail)

StatusCodes == {StatusOK, StatusNoContent, 404, 500}

\* Answers to a create or update: the body decodes into the response type or not.
StoreResponses ==
  {TransportFailure, Response(NoError, StatusOK, TRUE, <<>>, ParseFail),
   Response(NoError, StatusOK, FALSE, <<>>, ParseFail)}

\* Answers to a delete: its body is not read.
DeleteResponses ==
  {TransportFailure} \cup {Response(NoError, c, FALSE, <<>>, ParseFail) : c \in StatusCodes}

NoResponse == Response(NoError, 0, FALSE, <<>>, ParseFail)

NoCall ==
  [op |-> "none", storeId |-> <<>>, resp |-> NoResponse, sent |-> FALSE,
   outcome |-> "none", err |-> NoError, value |-> <<>>]

\* The record of a finished call: what was asked, whether sendRequest was
\* reached and what it returned, and what the caller got back.
Call(op, storeId, resp, sent, outcome, err, value) ==
  [op |-> op, storeId |-> storeId, resp |-> resp, sent |-> sent,
   outcome |-> outcome, err |-> err, value |-> value]

Request(method, endpoint, payload) ==
  [Method |-> method, Endpoint |-> endpoint, Payload |-> payload]

DecodeError == NewError(<<"json: cannot decode response body">>)

(***************************************************************************)
(* CreateStore / UpdateStore                                               *)
(***************************************************************************)
\* validateCreateStoreArgs without its last check.
validateCreateStoreArgsNoAgent(ca) ==
  IF ca.ClientMachine = <<>>
    THEN NewError(<<"client machine is required for creation of new certificate store">>)
  ELSE IF ca.StorePath = <<>>
    THEN NewError(<<"store path is required for creation of new certificate store">>)
  ELSE NoError

\* store.go validateCreateStoreArgs
validateCreateStoreArgs(ca) ==
  IF ca.ClientMachine = <<>>
    THEN NewError(<<"client machine is required for creation of new certificate store">>)
  ELSE IF ca.StorePath = <<>>
    THEN NewError(<<"store path is required for creation of new certificate store">>)
  ELSE IF ca.AgentId = <<>>
    THEN NewError(<<"orchestrator agent id is required for creation of new certificate store">>)
  ELSE NoError

\* store.go validateUpdateStoreArgs
validateUpdateStoreArgs(ca) ==
  IF ca.ClientMachine = <<>>
    THEN NewError(<<"client machine is required for creation of new certificate store">>)
  ELSE IF ca.StorePath = <<>>
    THEN NewError(<<"store path is required for creation of new certificate store">>)
  ELSE IF ca.AgentId = <<>>
    THEN NewError(<<"orchestrator agent id is required for creation of new certificate store">>)
  ELSE NoError

\* The properties step encoding the map on every call, whatever the record's
\* PropertiesString holds.
WithPropertiesStringAlways(ca) ==
  [ca EXCEPT !.PropertiesString = EncodeProperties(ca.Properties)]

\* store.go lines 30-37 / 86-93: the args record after the properties step.
WithPropertiesString(ca) ==
  IF ca.PropertiesString = <<>>
    THEN [ca EXCEPT !.PropertiesString = EncodeProperties(ca.Properties)]
    ELSE ca

\* The body of CreateStore and UpdateStore after validation passed.
SendStore(op, method, resp) ==
  LET ca == WithPropertiesString(args)
  IN /\ args' = ca
     /\ requests' = Append(requests, Request(method, <<"CertificateStores">>, <<ca>>))
     /\ call' = IF ~resp.err.nil
                  THEN Call(op, <<>>, resp, TRUE, "returned", resp.err, <<>>)
                ELSE IF ~resp.decodes
                  THEN Call(op, <<>>, resp, TRUE, "returned", DecodeError, <<>>)
                ELSE Call(op, <<>>, resp, TRUE, "returned", NoError, <<>>)

RejectStore(op, err) ==
  /\ call' = Call(op, <<>>, NoResponse, FALSE, "returned", err, <<>>)
  /\ UNCHANGED <<args, requests>>

CreateStore(resp) ==
  /\ args.type = "create"
  /\ Len(requests) < MaxCalls
  /\ LET err == validateCreateStoreArgs(args)
     IN IF ~err.nil THEN RejectStore("CreateStore", err)
        ELSE SendStore("CreateStore", <<"POST">>, resp)
  /\ UNCHANGED input

UpdateStore(resp) ==
  /\ args.type = "update"
  /\ Len(requests) < MaxCalls
  /\ LET err == validateUpdateStoreArgs(args)
     IN IF ~err.nil THEN RejectStore("UpdateStore", err)
        ELSE SendStore("UpdateStore", <<"Put">>, resp)
  /\ UNCHANGED input

\* The caller edits the record it passes by pointer between two calls.
SetProperties(m) ==
  /\ Len(requests) < MaxCalls
  /\ m # args.Properties
  /\ args' = [args EXCEPT !.Properties = m]
  /\ UNCHANGED <<requests, call, input>>

(***************************************************************************)
(* DeleteCertificateStore                                                  *)
(***************************************************************************)
\* The status error with the endpoint's prefix only, the store id left out.
StatusErrorNoId(method, endpoint, status) ==
  NewError(<<"[ERROR] Something unexpected happened, ">> \o method
           \o <<" call to ">> \o <<Head(endpoint)>> \o <<" returned status ">>
           \o Itoa(status))

\* store.go line 148
StatusError(method, endpoint, status) ==
  NewError(<<"[ERROR] Something unexpected happened, ">> \o method
           \o <<" call to ">> \o endpoint \o <<" returned status ">> \o Itoa(status))

DeleteCertificateStore(storeId, resp) ==
  LET endpoint == <<"CertificateStores/">> \o storeId
      method == <<"DELETE">>
  IN /\ Len(requests) < MaxCalls
     /\ requests' = Append(requests, Request(method, endpoint, <<>>))
     /\ call' = IF ~resp.err.nil
                  THEN Call("DeleteCertificateStore", storeId, resp, TRUE,
                            "returned", resp.err, <<>>)
                ELSE IF resp.StatusCode # StatusNoContent
                  THEN Call("DeleteCertificateStore", storeId, resp, TRUE, "returned",
                            StatusError(method, endpoint, resp.StatusCode), <<>>)
                ELSE Call("DeleteCertificateStore", storeId, resp, TRUE,
                          "returned", NoError, <<>>)
     /\ UNCHANGED <<args, input>>

(***************************************************************************)
(* GetCertificateStoreByID                                                 *)
(***************************************************************************)
ByIdBodies == {<<>>, <<"{", "}">>, <<"[", "]">>, <<"{">>,
               <<"{", QUOTE, "a", QUOTE, ":", QUOTE, "x", QUOTE, "}">>,
               <<"{", QUOTE, "a", QUOTE, ":", "1", "}">>}

ByIdResponses ==
  {TransportFailure, Response(NoError, StatusOK, FALSE, <<>>, ParseFail)}
    \cup {Response(NoError, StatusOK, TRUE, ps, ParseFail) : ps \in ByIdBodies}

GetCertificateStoreByID(storeId, resp) ==
  LET endpoint == <<"CertificateStores/">> \o storeId
      props == unmarshalPropertiesString(resp.PropertiesString)
  IN /\ Len(requests) < MaxCalls
     /\ requests' = Append(requests, Request(<<"GET">>, endpoint, <<>>))
     /\ call' = IF ~resp.err.nil
                  THEN Call("GetCertificateStoreByID", storeId, resp, TRUE,
                            "returned", resp.err, <<>>)
                ELSE IF ~resp.decodes
                  THEN Call("GetCertificateStoreByID", storeId, resp, TRUE,
                            "returned", DecodeError, <<>>)
                ELSE IF props.outcome = "panic"
                  THEN Call("GetCertificateStoreByID", storeId, resp, TRUE,
                            "panic", NoError, <<>>)
                ELSE Call("GetCertificateStoreByID", storeId, resp, TRUE,
                          "returned", NoError, props.value)
     /\ UNCHANGED <<args, input>>

(***************************************************************************)
(* GetCertStoreInventory.  The body is walked as json decoded it into      *)
(* []interface{}.  The Go values the loop builds are modelled with their   *)
(* storage: a slice is a header [arr, len, cap] over a backing array, a    *)
(* map is a reference; append(invResp, invC) copies the struct, i.e. the   *)
(* slice header and the three map references.                              *)
(***************************************************************************)
Str(s) == MkVal("string", s, <<>>)

Num(n) == MkVal("number", Itoa(n), <<>>)

Obj(members) == MkVal("object", <<>>, members)

Arr(elems) == MkVal("array", <<>>, [i \in 1..Len(elems) |-> [k |-> <<>>, v |-> elems[i]]])

RECURSIVE Atoi(_)
\* int(x.(float64)) for the integral literals of the payloads.
Atoi(s) ==
  IF s = <<>> THEN 0
  ELSE IF Head(s) = "-" THEN 0 - Atoi(Tail(s))
  ELSE 10 * Atoi(SubSeq(s, 1, Len(s) - 1)) + (CharCode(s[Len(s)]) - CharCode("0"))

\* m[k].(string) and m[k].(float64) succeed
HasString(m, k) == k \in DOMAIN m /\ m[k].kind = "string"

HasNumber(m, k) == k \in DOMAIN m /\ m[k].kind = "number"

CertStringFields ==
  {<<"IssuedDN">>, <<"SerialNumber">>, <<"NotBefore">>, <<"NotAfter">>,
   <<"SigningAlgorithm">>, <<"IssuerDN">>, <<"Thumbprint">>}

CertNumberFields == {<<"Id">>, <<"CertStoreInventoryItemId">>}

\* store.go lines 339-353: every type assertion on a certificate succeeds.
CertAsserts(cert) ==
  /\ cert.kind = "object"
  /\ LET m == ObjectMap(cert.members)
     IN /\ \A f \in CertStringFields : HasString(m, f)
        /\ \A f \in CertNumberFields : HasNumber(m, f)

\* store.go lines 339-349
InventoriedCertificate(cert) ==
  LET m == ObjectMap(cert.members)
  IN [Id |-> Atoi(m[<<"Id">>].str),
      IssuedDN |-> m[<<"IssuedDN">>].str,
      SerialNumber |-> m[<<"SerialNumber">>].str,
      NotBefore |-> m[<<"NotBefore">>].str,
      NotAfter |-> m[<<"NotAfter">>].str,
      SigningAlgorithm |-> m[<<"SigningAlgorithm">>].str,
      IssuerDN |-> m[<<"IssuerDN">>].str,
      Thumbprint |-> m[<<"Thumbprint">>].str,
      CertStoreInventoryItemId |-> Atoi(m[<<"CertStoreInventoryItemId">>].str)]

ZeroCert ==
  [Id |-> 0, IssuedDN |-> <<>>, SerialNumber |-> <<>>, NotBefore |-> <<>>,
   NotAfter |-> <<>>, SigningAlgorithm |-> <<>>, IssuerDN |-> <<>>,
   Thumbprint |-> <<>>, CertStoreInventoryItemId |-> 0]

\* Go append on a slice header sl over the backing arrays: in place when
\* there is room, else into a new array of grown capacity.
AppendSlice(arrays, sl, x) ==
  IF sl.len < sl.cap
    THEN [arrays |-> [arrays EXCEPT ![sl.arr][sl.len + 1] = x],
          slice |-> [sl EXCEPT !.len = sl.len + 1]]
    ELSE LET newcap == IF sl.cap = 0 THEN 1 ELSE 2 * sl.cap
             old == IF sl.len = 0 THEN <<>> ELSE SubSeq(arrays[sl.arr], 1, sl.len)
             new == old \o <<x>> \o [i \in 1..(newcap - sl.len - 1) |-> ZeroCert]
         IN [arrays |-> Append(arrays, new),
             slice |-> [arr |-> Len(arrays) + 1, len |-> sl.len + 1, cap |-> newcap]]

\* CertStep with the struct appended to the result before the certificate
\* is appended to its list.
CertStepAppendFirst(st, cert) ==
  LET iCert == InventoriedCertificate(cert)
      app == AppendSlice(st.arrays, st.invC.Certificates, iCert)
      invC == [st.invC EXCEPT !.Certificates = app.slice]
      maps == [st.maps EXCEPT ![invC.Thumbprints] = @ \cup {iCert.Thumbprint},
                              ![invC.Serials] = @ \cup {iCert.SerialNumber},
                              ![invC.Ids] = @ \cup {iCert.Id}]
  IN [st EXCEPT !.arrays = app.arrays, !.maps = maps, !.invC = invC,
                !.invResp = Append(st.invResp, st.invC)]

\* store.go lines 339-354: one pass of the inner loop.  st.invC is the
\* struct under construction, st.invResp the result list so far.
CertStep(st, cert) ==
  LET iCert == InventoriedCertificate(cert)
      app == AppendSlice(st.arrays, st.invC.Certificates, iCert)
      invC == [st.invC EXCEPT !.Certificates = app.slice]
      maps == [st.maps EXCEPT ![invC.Thumbprints] = @ \cup {iCert.Thumbprint},
                              ![invC.Serials] = @ \cup {iCert.SerialNumber},
                              ![invC.Ids] = @ \cup {iCert.Id}]
  IN [st EXCEPT !.arrays = app.arrays, !.maps = maps, !.invC = invC,
                !.invResp = Append(st.invResp, invC)]

RECURSIVE CertLoop(_, _, _)
\* store.go line 338: range over the slot's certificates, from index i.
CertLoop(st, certs, i) ==
  IF i > Len(certs) THEN st
  ELSE IF ~CertAsserts(certs[i].v) THEN [st EXCEPT !.panic = TRUE]
  ELSE CertLoop(CertStep(st, certs[i].v), certs, i + 1)

\* store.go lines 325-337: the asserts on a slot succeed.
SlotAsserts(slot) ==
  /\ slot.kind = "object"
  /\ LET m == ObjectMap(slot.members)
     IN /\ HasString(m, <<"Name">>)
        /\ HasNumber(m, <<"CertStoreInventoryItemId">>)
        /\ <<"Certificates">> \in DOMAIN m
        /\ m[<<"Certificates">>].kind = "array"

\* store.go lines 325-328: params, with the comma-ok default.
SlotParameters(m) ==
  IF <<"Parameters">> \in DOMAIN m /\ m[<<"Parameters">>].kind = "object"
    THEN ObjectMap(m[<<"Parameters">>].members)
    ELSE EmptyMap

\* store.go lines 329-337: the fresh struct, with three new maps.
NewInvC(st, m) ==
  [Name |-> m[<<"Name">>].str,
   CertStoreInventoryItemId |-> Atoi(m[<<"CertStoreInventoryItemId">>].str),
   Certificates |-> [arr |-> 0, len |-> 0, cap |-> 0],
   Parameters |-> SlotParameters(m),
   Thumbprints |-> Len(st.maps) + 1,
   Serials |-> Len(st.maps) + 2,
   Ids |-> Len(st.maps) + 3]

RECURSIVE SlotLoopPerSlot(_, _, _)
\* SlotLoop with the struct appended to the result once per slot, after
\* the slot's certificates were scanned.
SlotLoopPerSlot(st, slots, i) ==
  IF i > Len(slots) \/ st.panic THEN st
  ELSE IF ~SlotAsserts(slots[i].v) THEN [st EXCEPT !.panic = TRUE]
  ELSE LET m == ObjectMap(slots[i].v.members)
           st1 == [st EXCEPT !.invC = NewInvC(st, m),
                             !.maps = st.maps \o <<{}, {}, {}>>]
           done == CertLoop(st1, m[<<"Certificates">>].members, 1)
           st2 == IF done.panic THEN done
                  ELSE [done EXCEPT !.invResp = Append(st.invResp, done.invC)]
       IN SlotLoopPerSlot(st2, slots, i + 1)

RECURSIVE SlotLoop(_, _, _)
\* store.go line 324: range over the slots, from index i.
SlotLoop(st, slots, i) ==
  IF i > Len(slots) \/ st.panic THEN st
  ELSE IF ~SlotAsserts(slots[i].v) THEN [st EXCEPT !.panic = TRUE]
  ELSE LET m == ObjectMap(slots[i].v.members)
           st1 == [st EXCEPT !.invC = NewInvC(st, m),
                             !.maps = st.maps \o <<{}, {}, {}>>]
       IN SlotLoop(CertLoop(st1, m[<<"Certificates">>].members, 1), slots, i + 1)

NoInvC ==
  [Name |-> <<>>, CertStoreInventoryItemId |-> 0,
   Certificates |-> [arr |-> 0, len |-> 0, cap |-> 0], Parameters |-> EmptyMap,
   Thumbprints |-> 0, Serials |-> 0, Ids |-> 0]

InitialLoopState ==
  [arrays |-> <<>>, maps |-> <<>>, invC |-> NoInvC, invResp |-> <<>>, panic |-> FALSE]

\* What the caller reads through the returned *[]CertStoreInventory: each
\* entry with its slice and maps dereferenced.
Dereference(st) ==
  [i \in 1..Len(st.invResp) |->
     LET e == st.invResp[i]
     IN [Name |-> e.Name,
         CertStoreInventoryItemId |-> e.CertStoreInventoryItemId,
         Certificates |-> IF e.Certificates.len = 0 THEN <<>>
                          ELSE SubSeq(st.arrays[e.Certificates.arr], 1, e.Certificates.len),
         Parameters |-> e.Parameters,
         Thumbprints |-> st.maps[e.Thumbprints],
         Serials |-> st.maps[e.Serials],
         Ids |-> st.maps[e.Ids]]]

\* store.go lines 318-360 on the decoded top-level array.
DecodeInventory(slots) ==
  LET st == SlotLoop(InitialLoopState, slots, 1)
  IN IF st.panic THEN [outcome |-> "panic", value |-> <<>>]
     ELSE [outcome |-> "ok", value |-> Dereference(st)]

GetCertStoreInventory(storeId, resp) ==
  LET endpoint == <<"CertificateStores/">> \o storeId \o <<"/Inventory">>
      \* json Decode into []interface{}: an array, or null (a nil slice)
      decodes == resp.doc.ok /\ resp.doc.val.kind \in {"array", "null"}
      inv == DecodeInventory(resp.doc.val.members)
  IN /\ Len(requests) < MaxCalls
     /\ requests' = Append(requests, Request(<<"GET">>, endpoint, <<>>))
     /\ call' = IF ~resp.err.nil
                  THEN Call("GetCertStoreInventory", storeId, resp, TRUE,
                            "returned", resp.err, <<>>)
                ELSE IF ~decodes
                  THEN Call("GetCertStoreInventory", storeId, resp, TRUE,
                            "returned", DecodeError, <<>>)
                ELSE IF inv.outcome = "panic"
                  THEN Call("GetCertStoreInventory", storeId, resp, TRUE,
                            "panic", NoError, <<>>)
                ELSE Call("GetCertStoreInventory", storeId, resp, TRUE,
                          "returned", NoError, inv.value)
     /\ UNCHANGED <<args, input>>

(***************************************************************************)
(* Inventory payloads: the service's array of slots, built as decoded      *)
(* documents.  Slot i is named "slot" i and has item id i.                 *)
(***************************************************************************)
CertChoices ==
  {[Id |-> 1, Thumbprint |-> <<"T1">>, SerialNumber |-> <<"S1">>],
   [Id |-> 2, Thumbprint |-> <<"T2">>, SerialNumber |-> <<"S2">>]}

CertDoc(c, itemId) ==
  Obj(<<[k |-> <<"Id">>, v |-> Num(c.Id)],
        [k |-> <<"IssuedDN">>, v |-> Str(<<"CN=leaf">>)],
        [k |-> <<"SerialNumber">>, v |-> Str(c.SerialNumber)],
        [k |-> <<"NotBefore">>, v |-> Str(<<"2023-01-01">>)],
        [k |-> <<"NotAfter">>, v |-> Str(<<"2024-01-01">>)],
        [k |-> <<"SigningAlgorithm">>, v |-> Str(<<"SHA256RSA">>)],
        [k |-> <<"IssuerDN">>, v |-> Str(<<"CN=ca">>)],
        [k |-> <<"Thumbprint">>, v |-> Str(c.Thumbprint)],
        [k |-> <<"CertStoreInventoryItemId">>, v |-> Num(itemId)]>>)

ParamModes == {"absent", "object", "string"}

SlotName(i) == <<"slot">> \o Itoa(i)

SlotDoc(i, certs, mode) ==
  Obj(<<[k |-> <<"Name">>, v |-> Str(SlotName(i))],
        [k |-> <<"CertStoreInventoryItemId">>, v |-> Num(i)]>>
      \o (CASE mode = "absent" -> <<>>
            [] mode = "object" ->
                 <<[k |-> <<"Parameters">>,
                    v |-> Obj(<<[k |-> <<"Alias">>, v |-> Str(<<"tls">>)]>>)]>>
            [] mode = "string" -> <<[k |-> <<"Parameters">>, v |-> Str(<<"tls">>)]>>)
      \o <<[k |-> <<"Certificates">>,
            v |-> Arr([j \in 1..Len(certs) |-> CertDoc(certs[j], i)])]>>)

\* shape: for each slot, the sequence of its certificates.
PayloadDoc(shape, mode) ==
  Arr([i \in 1..Len(shape) |-> SlotDoc(i, shape[i], mode)])

CertLists(choices) == UNION {[1..n -> choices] : n \in 0..MaxCerts}

Shapes(choices) == UNION {[1..s -> CertLists(choices)] : s \in 0..MaxSlots}

\* A document with one member of one object removed or given another type.
WithoutMember(obj, name) ==
  LET Keep(mem) == mem.k # name
  IN Obj(SelectSeq(obj.members, Keep))

WithMember(obj, name, val) ==
  Obj([i \in 1..Len(obj.members) |->
         IF obj.members[i].k = name THEN [k |-> name, v |-> val] ELSE obj.members[i]])

Damage(obj, name, how) ==
  IF how = "missing" THEN WithoutMember(obj, name)
  ELSE LET m == ObjectMap(obj.members)
       IN WithMember(obj, name, IF m[name].kind = "string" THEN Num(7) ELSE Str(<<"7">>))

ReplaceElem(arr, i, val) ==
  MkVal("array", <<>>, [arr.members EXCEPT ![i] = [k |-> <<>>, v |-> val]])

\* The payload with certificate ci of slot si damaged in one field.
DamagedCert(doc, si, ci, name, how) ==
  LET slot == doc.members[si].v
      certs == ObjectMap(slot.members)[<<"Certificates">>]
      cert == certs.members[ci].v
  IN ReplaceElem(doc, si,
       WithMember(slot, <<"Certificates">>,
                  ReplaceElem(certs, ci, Damage(cert, name, how))))

FirstChoice == {[Id |-> 1, Thumbprint |-> <<"T1">>, SerialNumber |-> <<"S1">>]}

DamagedCertPayloads ==
  {DamagedCert(PayloadDoc(shape, "absent"), si, ci, name, how) :
     <<shape, si, ci>> \in {x \in Shapes(FirstChoice) \X (1..MaxSlots) \X (1..MaxCerts) :
                              x[2] <= Len(x[1]) /\ x[3] <= Len(x[1][x[2]])},
     name \in CertStringFields \cup CertNumberFields,
     how \in {"missing", "wrongtype"}}

DamagedSlotPayloads ==
  {ReplaceElem(PayloadDoc(<<<<>>>>, "absent"), 1,
               Damage(SlotDoc(1, <<>>, "absent"), name, how)) :
     name \in {<<"Name">>, <<"CertStoreInventoryItemId">>, <<"Certificates">>},
     how \in {"missing", "wrongtype"}}
    \cup {Arr(<<Str(<<"slot1">>)>>)}

ValidPayloads == {PayloadDoc(shape, mode) : shape \in Shapes(CertChoices), mode \in ParamModes}

\* One slot with more certificates than the first backing arrays hold.
LongPayloads ==
  {PayloadDoc(<<[j \in 1..n |-> IF j % 2 = 1 THEN c ELSE d]>>, "absent") :
     n \in 4..5, c \in CertChoices, d \in CertChoices}

\* Bodies that are not a list of slots: bad syntax, null, not an array.
OtherBodies == {ParseFail, ParseOk(0, NullVal), ParseOk(0, Obj(<<>>))}

(***************************************************************************)
(* Inputs of the property codec.                                           *)
(***************************************************************************)
PropKeys == {<<>>, <<"a">>, <<"b">>, <<QUOTE>>}

PropValues == {<<>>, <<"x">>, <<BSLASH, LF>>}

PropertyMaps ==
  UNION {[ks -> PropValues] : ks \in {s \in SUBSET PropKeys : Cardinality(s) <= MaxMembers}}

\* Texts made of a few lexical pieces: mostly not JSON, some JSON values.
Tokens ==
  {<<"{">>, <<"}">>, <<"[">>, <<"]">>, <<",">>, <<":">>, <<QUOTE, "a", QUOTE>>,
   <<"1">>, <<"n", "u", "l", "l">>, <<" ">>, <<QUOTE>>, <<BSLASH>>}

TokenTexts == {Concat(ts) : ts \in UNION {[1..n -> Tokens] : n \in 0..MaxTokens}}

\* Objects as a service may write them: any member order, repeated names,
\* values of every JSON type.
MemberValueTexts ==
  {MarshalString(<<"x">>), MarshalString(<<"y">>), <<"1">>, <<"n", "u", "l", "l">>,
   <<"t", "r", "u", "e">>, <<"[", "]">>, EncodeProperties(EmptyMap),
   MarshalStringMap([f \in {ValueKey} |-> <<"x">>])}

ObjectTexts ==
  {<<"{">> \o MarshalMembers(ms, TRUE) \o <<"}">> :
     ms \in UNION {[1..n -> [k : {<<"a">>, <<"b">>}, text : MemberValueTexts]] :
                     n \in 0..MaxMembers}}

NoInput == [kind |-> "none", properties |-> EmptyMap, text |-> <<>>, doc |-> ParseFail]

MapInput(m) == [kind |-> "map", properties |-> m, text |-> <<>>, doc |-> ParseFail]

TextInput(s) == [kind |-> "text", properties |-> EmptyMap, text |-> s, doc |-> ParseFail]

InventoryInput(d) == [kind |-> "inventory", properties |-> EmptyMap, text |-> <<>>, doc |-> d]

(***************************************************************************)
(* Applications of the codec to the drawn input.                           *)
(***************************************************************************)
CodecCall(op, r) ==
  Call(op, <<>>, NoResponse, FALSE,
       IF r.outcome = "panic" THEN "panic" ELSE "returned", NoError, r.value)

\* store.go lines 31-36 on the drawn map.
Encode ==
  /\ input.kind = "map"
  /\ call.op # "encode"
  /\ call' = CodecCall("encode", Returned(EncodeProperties(input.properties)))
  /\ UNCHANGED <<args, requests, input>>

\* store.go line 220 on the drawn text.
Decode ==
  /\ input.kind = "text"
  /\ call.op # "decode"
  /\ call' = CodecCall("decode", unmarshalPropertiesString(input.text))
  /\ UNCHANGED <<args, requests, input>>

\* The read-side flat form {name: string} of a map, as the service writes it.
FlatForm(m) == MarshalStringMap(m)

\* Decoding the read-side form of the drawn map.
DecodeFlat ==
  /\ input.kind = "map"
  /\ call.op # "decodeFlat"
  /\ call' = CodecCall("decodeFlat", unmarshalPropertiesString(FlatForm(input.properties)))
  /\ UNCHANGED <<args, requests, input>>

\* Decoding the write-side form the encoder produced for the drawn map.
DecodeEncoded ==
  /\ input.kind = "map"
  /\ call.op # "decodeEncoded"
  /\ call' = CodecCall("decodeEncoded",
                       unmarshalPropertiesString(EncodeProperties(input.properties)))
  /\ UNCHANGED <<args, requests, input>>

(***************************************************************************)
(* Specifications.                                                         *)
(***************************************************************************)
InventoryResponses ==
  {TransportFailure}
    \cup {Response(NoError, StatusOK, TRUE, <<>>, d) :
            d \in {ParseFail, ParseOk(0, Arr(<<>>)),
                   ParseOk(0, PayloadDoc(<<<<CHOOSE c \in FirstChoice : TRUE>>>>, "absent"))}}

\* The store operations, called in any order on one client.
Init ==
  /\ args \in ArgsSet
  /\ requests = <<>>
  /\ call = NoCall
  /\ input = NoInput

Next ==
  \/ \E resp \in StoreResponses : CreateStore(resp)
  \/ \E resp \in StoreResponses : UpdateStore(resp)
  \/ \E m \in ArgProperties : SetProperties(m)
  \/ \E id \in StoreIds, resp \in DeleteResponses : DeleteCertificateStore(id, resp)
  \/ \E id \in StoreIds, resp \in ByIdResponses : GetCertificateStoreByID(id, resp)
  \/ \E id \in StoreIds, resp \in InventoryResponses : GetCertStoreInventory(id, resp)

Spec == Init /\ [][Next]_vars

\* The property codec applied to one drawn map or text.
InitCodec ==
  /\ args = CHOOSE a \in ArgsSet : TRUE
  /\ requests = <<>>
  /\ call = NoCall
  /\ \/ \E m \in PropertyMaps : input = MapInput(m)
     \/ \E s \in TokenTexts : input = TextInput(s)
     \/ \E s \in ObjectTexts : input = TextInput(s)

NextCodec ==
  \/ Encode
  \/ Decode
  \/ DecodeFlat
  \/ DecodeEncoded

SpecCodec == InitCodec /\ [][NextCodec]_vars

\* GetCertStoreInventory on one drawn response body.
InitInventory ==
  /\ args = CHOOSE a \in ArgsSet : TRUE
  /\ requests = <<>>
  /\ call = NoCall
  /\ \/ \E d \in OtherBodies : input = InventoryInput(d)
     \/ \E doc \in ValidPayloads : input = InventoryInput(ParseOk(0, doc))
     \/ \E doc \in LongPayloads : input = InventoryInput(ParseOk(0, doc))
     \/ \E doc \in DamagedCertPayloads : input = InventoryInput(ParseOk(0, doc))
     \/ \E doc \in DamagedSlotPayloads : input = InventoryInput(ParseOk(0, doc))

NextInventory ==
  \E id \in StoreIds :
    /\ call.op = "none"
    /\ GetCertStoreInventory(id, Response(NoError, StatusOK, TRUE, <<>>, input.doc))

SpecInventory == InitInventory /\ [][NextInventory]_vars

(***************************************************************************)
(* Properties of the store operations (specification Spec).                *)
(***************************************************************************)
StoreOps == {"CreateStore", "UpdateStore"}

IdOps == {"DeleteCertificateStore", "GetCertificateStoreByID", "GetCertStoreInventory"}

MissingField(ca) ==
  ca.ClientMachine = <<>> \/ ca.StorePath = <<>> \/ ca.AgentId = <<>>

StoreRequests ==
  {i \in 1..Len(requests) : requests[i].Method \in {<<"POST">>, <<"Put">>}}

\* C1: CreateStore and UpdateStore on a record with an empty ClientMachine,
\* StorePath or AgentId return an error naming the first missing field (three
\* different messages), and sendRequest is not reached: the call sent nothing
\* and no create/update request is ever in the transport's log.
C1_ValidationRejectsBeforeSend ==
  MissingField(args) =>
    /\ StoreRequests = {}
    /\ call.op \in StoreOps =>
         /\ call.outcome = "returned"
         /\ ~call.sent
         /\ ~call.err.nil
         /\ args.ClientMachine = <<>> =>
              call.err.msg = <<"client machine is required for creation of new certificate store">>
         /\ (args.ClientMachine # <<>> /\ args.StorePath = <<>>) =>
              call.err.msg = <<"store path is required for creation of new certificate store">>
         /\ (args.ClientMachine # <<>> /\ args.StorePath # <<>>) =>
              call.err.msg = <<"orchestrator agent id is required for creation of new certificate store">>

\* A create call was rejected for its empty AgentId after another operation
\* had used the transport.
C1_Witness ==
  /\ call.op = "CreateStore"
  /\ args.ClientMachine # <<>> /\ args.StorePath # <<>> /\ args.AgentId = <<>>
  /\ ~call.sent
  /\ Len(requests) = 1

\* C2: an id-addressed operation called with an empty store identifier
\* returns a validation error and does not reach the transport.
C2_EmptyIdRejectedBeforeSend ==
  (call.op \in IdOps /\ call.storeId = <<>>) =>
    /\ ~call.sent
    /\ call.outcome = "returned"
    /\ ~call.err.nil

StatusText ==
  (200 :> <<"2", "0", "0">>) @@ (204 :> <<"2", "0", "4">>)
    @@ (404 :> <<"4", "0", "4">>) @@ (500 :> <<"5", "0", "0">>)

\* C3: DeleteCertificateStore returns nil exactly when the transport call
\* succeeded with status 204; a transport error is returned as it is; any
\* other status gives an error whose message holds DELETE, the endpoint
\* CertificateStores/<storeId> and the status code in decimal.
C3_DeleteStatus ==
  call.op = "DeleteCertificateStore" =>
    /\ call.outcome = "returned"
    /\ call.err.nil <=> (call.resp.err.nil /\ call.resp.StatusCode = 204)
    /\ ~call.resp.err.nil => call.err = call.resp.err
    /\ (call.resp.err.nil /\ call.resp.StatusCode # 204) =>
         /\ Contains(call.err.msg, <<"DELETE">>)
         /\ Contains(call.err.msg, <<"CertificateStores/">> \o call.storeId)
         /\ Contains(call.err.msg, StatusText[call.resp.StatusCode])
         /\ Contains(Last(requests).Endpoint, call.storeId)

\* A delete of store 7 answered 404.
C3_Witness ==
  /\ call.op = "DeleteCertificateStore"
  /\ call.storeId = <<"7">>
  /\ call.resp.err.nil
  /\ call.resp.StatusCode = 404
  /\ ~call.err.nil

(***************************************************************************)
(* Properties of the property codec (specification SpecCodec).             *)
(***************************************************************************)
MemberNames(members) == {members[i].k : i \in 1..Len(members)}

\* C4: the encoded properties string is a JSON object with one member per
\* key of the map and no other, each member an object with the single field
\* "value" holding that key's string; the empty map encodes to "{}".
C4_EncodeShape ==
  call.op = "encode" =>
    LET m == input.properties
        r == Unmarshal(call.value)
        members == r.val.members
    IN /\ call.outcome = "returned"
       /\ r.ok
       /\ r.val.kind = "object"
       /\ Len(members) = Cardinality(DOMAIN m)
       /\ MemberNames(members) = DOMAIN m
       /\ \A i \in 1..Len(members) :
            /\ members[i].v.kind = "object"
            /\ Len(members[i].v.members) = 1
            /\ members[i].v.members[1].k = ValueKey
            /\ members[i].v.members[1].v = Str(m[members[i].k])
       /\ m = EmptyMap => call.value = <<"{", "}">>

\* A map of two keys, one of them a quote character, was encoded.
C4_Witness ==
  /\ call.op = "encode"
  /\ DOMAIN input.properties = {<<QUOTE>>, <<"a">>}
  /\ input.properties[<<"a">>] = <<BSLASH, LF>>

KnownMalformed ==
  {<<"{">>, <<"}">>, <<"[", "1", ",">>, <<QUOTE, "a", QUOTE, ":">>, <<QUOTE>>,
   <<"{", "}", "}">>, <<" ">>, <<"n", "u", "l", "l", "1">>, <<QUOTE, BSLASH, QUOTE>>}

\* C5: unmarshalPropertiesString returns the empty map, without fault, for
\* the empty string and for every text that is not valid JSON.
C5_DecodeDegrades ==
  (/\ call.op = "decode"
   /\ \/ input.text = <<>>
      \/ ~Unmarshal(input.text).ok
      \/ input.text \in KnownMalformed) =>
    /\ call.outcome = "returned"
    /\ call.value = EmptyMap

\* An unterminated object was decoded.
C5_Witness ==
  /\ call.op = "decode"
  /\ input.text = <<"{", QUOTE, "a", QUOTE, ":">>
  /\ call.outcome = "returned"

\* the text is a JSON object and member i's value is not a string
NonStringMember(text, i) ==
  LET r == Unmarshal(text)
  IN /\ r.ok
     /\ r.val.kind = "object"
     /\ i \in 1..Len(r.val.members)
     /\ r.val.members[i].v.kind # "string"

\* member i is the last one of its name
LastOfName(text, i) ==
  LET members == Unmarshal(text).val.members
  IN \A j \in (i + 1)..Len(members) : members[j].k # members[i].k

C7_RoundTrip ==
  /\ call.op = "decodeFlat" =>
       (call.outcome = "returned" /\ call.value = input.properties)
  /\ call.op = "decodeEncoded" =>
       ~(call.outcome = "returned" /\ call.value = input.properties)

\* C7 as amended: decoding the flat read-side form of a map yields the map;
\* decoding the nested form the encoder wrote for a non-empty map panics and
\* yields nothing, and for the empty map, whose nested form is "{}" like its
\* flat form, yields the empty map.
C7_RoundTripNonEmpty ==
  /\ call.op = "decodeFlat" =>
       (call.outcome = "returned" /\ call.value = input.properties)
  /\ (call.op = "decodeEncoded" /\ input.properties # EmptyMap) =>
       call.outcome = "panic"
  /\ (call.op = "decodeEncoded" /\ input.properties = EmptyMap) =>
       (call.outcome = "returned" /\ call.value = EmptyMap)

\* The flat form of a two-key map with characters that need escaping was decoded.
C7_Witness ==
  /\ call.op = "decodeFlat"
  /\ DOMAIN input.properties = {<<QUOTE>>, <<"b">>}
  /\ input.properties[<<QUOTE>>] = <<BSLASH, LF>>
  /\ call.value = input.properties

(***************************************************************************)
(* Properties of the inventory decoder (specification SpecInventory).      *)
(***************************************************************************)
InventoryReturned ==
  /\ call.op = "GetCertStoreInventory"
  /\ call.outcome = "returned"
  /\ call.err.nil

SeqRange(s) == {s[i] : i \in 1..Len(s)}

\* C8: every entry of the returned list has Thumbprints, Serials and Ids
\* equal to the sets of those fields over its own Certificates list.
C8_SetsAreProjections ==
  InventoryReturned =>
    \A i \in 1..Len(call.value) :
      LET e == call.value[i]
      IN /\ e.Thumbprints = {c.Thumbprint : c \in SeqRange(e.Certificates)}
         /\ e.Serials = {c.SerialNumber : c \in SeqRange(e.Certificates)}
         /\ e.Ids = {c.Id : c \in SeqRange(e.Certificates)}

\* The certificate documents of slot s of the drawn payload.
SlotCerts(s) ==
  LET slot == input.doc.val.members[s].v
      certs == ObjectMap(slot.members)[<<"Certificates">>].members
  IN [j \in 1..Len(certs) |-> ObjectMap(certs[j].v.members)]

RECURSIVE EntriesBefore(_)
\* The number of entries emitted for the slots before slot s.
EntriesBefore(s) == IF s = 1 THEN 0 ELSE EntriesBefore(s - 1) + Len(SlotCerts(s - 1))

SameCert(rec, doc) ==
  /\ rec.Id = Atoi(doc[<<"Id">>].str)
  /\ rec.Thumbprint = doc[<<"Thumbprint">>].str
  /\ rec.SerialNumber = doc[<<"SerialNumber">>].str

C10_BadCertificateIsError ==
  (/\ call.op = "GetCertStoreInventory"
   /\ input.doc.ok
   /\ input.doc.val \in DamagedCertPayloads) =>
    /\ call.outcome = "returned"
    /\ ~call.err.nil
    /\ call.value = <<>>

\* C11: the returned list has one entry per certificate object of the
\* payload: as many entries as certificates over all slots, and for each
\* slot as many entries of its name as it holds certificates, so that a
\* slot with an empty Certificates array has no entry; a well-formed
\* payload (the empty array included) is decoded without error.
C11_OneEntryPerCertificate ==
  call.op = "GetCertStoreInventory" =>
    /\ (input.doc.ok /\ input.doc.val \in ValidPayloads \cup LongPayloads) =>
         InventoryReturned
    /\ InventoryReturned =>
         LET slots == input.doc.val.members
         IN /\ Len(call.value) = EntriesBefore(Len(slots) + 1)
            /\ slots = <<>> => call.value = <<>>
            /\ \A s \in 1..Len(slots) :
                 Cardinality({i \in 1..Len(call.value) : call.value[i].Name = SlotName(s)})
                   = Len(SlotCerts(s))

\* A payload whose first slot holds no certificate and whose second holds
\* one was decoded: the only entry is the second slot's.
C11_Witness ==
  /\ InventoryReturned
  /\ Len(input.doc.val.members) = 2
  /\ Len(SlotCerts(1)) = 0
  /\ Len(SlotCerts(2)) = 1
  /\ Len(call.value) = 1
  /\ call.value[1].Name = SlotName(2)

(***************************************************************************)
(* Reuse of one args record over several calls (specification Spec).       *)
(***************************************************************************)
\* The write-side text of the maps a caller passes.
ExpectedEncoding(m) ==
  IF m = EmptyMap THEN <<"{", "}">>
  ELSE <<"{", QUOTE, "a", QUOTE, ":", "{", QUOTE, "v", "a", "l", "u", "e", QUOTE, ":", QUOTE>>
       \o m[<<"a">>] \o <<QUOTE, "}", "}">>

\* The step is a CreateStore or UpdateStore call that reached sendRequest.
StoreCallSent ==
  /\ Len(requests') = Len(requests) + 1
  /\ Last(requests').Method \in {<<"POST">>, <<"Put">>}

\* The step is a CreateStore or UpdateStore call that validation rejected,
\* told from a step of the caller by the call record it leaves.
StoreCallRejected ==
  /\ ~(call.op \in StoreOps /\ ~call.sent)
  /\ call'.op \in StoreOps
  /\ ~call'.sent

C12_Step ==
  /\ StoreCallSent =>
       /\ Last(requests').Payload = <<args'>>
       /\ args.PropertiesString = <<>> =>
            args' = [args EXCEPT !.PropertiesString = ExpectedEncoding(args.Properties)]
       /\ args.PropertiesString # <<>> => args' = args
  /\ StoreCallRejected => args' = args

C12_Sent ==
  \A i \in StoreRequests :
    /\ requests[i].Payload[1].PropertiesString # <<>>
    /\ requests[i].Payload[1].PropertiesString
         = requests[CHOOSE f \in StoreRequests : \A j \in StoreRequests : f <= j]
             .Payload[1].PropertiesString
    /\ i = Len(requests) => args.PropertiesString = requests[i].Payload[1].PropertiesString

====
